---- MODULE Spec2Model ----
(***************************************************************************)
(* svelte-pocketbase-stores: recordStore, collectionStore and              *)
(* paginatedCollectionStore (src/lib/stores/record.ts, collection.ts) with *)
(* realtimeStoreExpand (src/lib/internal), modelled as one binding talking *)
(* to a PocketBase collection.                                             *)
(*                                                                         *)
(* One behaviour is the life of one binding.  The JavaScript event loop is *)
(* modelled at the grain of macrotasks: a handler that only awaits already *)
(* resolved promises runs to completion in one step; a handler that awaits *)
(* the network (getOne, getFullList, getList, subscribe) is split at that  *)
(* await into the call and its completion.                                 *)
(***************************************************************************)
EXTENDS Integers, Sequences, FiniteSets, TLC

\* ------------------------------------------------------------- bounds
\* Record ids are 1 .. MaxId and the data field n is in 0 .. MaxVal.  MaxSteps
\* bounds the stimuli of one behaviour: backend changes, store.subscribe calls,
\* reload() calls and navigation calls (the answers to what they start, and
\* load() and the unsubscribing of subscribers, come on top).
MaxId == 3
MaxVal == 1
MaxSteps == 2
PerPage == 1
FilterLimit == 1

Ids == 1 .. MaxId
Vals == 0 .. MaxVal

\* ------------------------------------------------------------- state
VARIABLES
    kind,       \* which store this binding is: "record", "collection", "paginated"
    opts,       \* the options the binding was created with
    db,         \* the PocketBase collection: a set of [id, n] rows
    result,     \* the closure variable `result` of the store
    published,  \* the value of the svelte store: <<>> before any set, else <<v>>
    loadState,  \* the store's trackState value
    loadFetch,  \* the load()/reload() fetch in flight: the states of the collection
                \* the server may answer from ({} when none is in flight)
    pageFetch,  \* setPage fetches in flight: a sequence of [page, perPage, dbs]
    handlers,   \* realtime callbacks suspended in realtimeStoreExpand
    acq,        \* unsubscribePromise: "pending", "resolved", "rejected"
    live,       \* the backend delivers events to the callback
    observers,  \* number of subscribers of the store
    waiting,    \* unsubscribe() calls awaiting unsubscribePromise
    calls,      \* counters: backend subscribe, backend release, unsubscribe()
    steps,      \* stimuli so far
    last,       \* the operation that produced this state
    truth       \* the entities a reducer keyed by id holds after the same
                \* loads, navigations and applied events

vars == <<kind, opts, db, result, published, loadState, loadFetch, pageFetch,
          handlers, acq, live, observers, waiting, calls, steps, last, truth>>

\* ------------------------------------------------------------ entities
\* A record as the client sees it: its id, one data field n, and whether the
\* relations named by queryParams.expand are filled in.
Entity(i, v, x) == [id |-> i, n |-> v, expanded |-> x]

\* `undefined` as the value of a record store.
Undefined == [id |-> 0, n |-> 0, expanded |-> FALSE]

ListResult(page, perPage, totalItems, totalPages, items) ==
    [page |-> page, perPage |-> perPage, totalItems |-> totalItems,
     totalPages |-> totalPages, items |-> items]

Min(a, b) == IF a < b THEN a ELSE b

\* ------------------------------------------------------------- backend
Exists(d, i) == \E r \in d : r.id = i

ValOf(d, i) == (CHOOSE r \in d : r.id = i).n

\* The rows with id >= i in the server's order, as the client receives them.
RECURSIVE RowsFrom(_, _, _)
RowsFrom(d, i, x) ==
    IF i > MaxId THEN <<>>
    ELSE (IF Exists(d, i) THEN <<Entity(i, ValOf(d, i), x)>> ELSE <<>>)
         \o RowsFrom(d, i + 1, x)

\* collection.getFullList(undefined, queryParams)
getFullList(d, x) == RowsFrom(d, 1, x)

\* collection.getList(page, perPage, queryParams)
getList(d, page, perPage, x) ==
    LET all == getFullList(d, x)
        total == Len(all)
        first == (page - 1) * perPage + 1
    IN  ListResult(page, perPage, total, (total + perPage - 1) \div perPage,
                   SubSeq(all, first, Min(page * perPage, total)))

\* collection.getOne(id, params): defined when the row exists (else it rejects).
getOne(d, i, x) == Entity(i, ValOf(d, i), x)

\* ------------------------------------------------- sort and filter
\* options.sortFunction of the modelled caller: (a, b) => a.n - b.n
sortFunction(a, b) == a.n - b.n

\* options.filterFunction of the modelled caller, which reads value, index and
\* `this` (filterFunctionThisArg = {limit}):
\*   function (value, index) { return value.n > 0 && index < this.limit }
filterFunction(value, index, array, thisArg) == value.n > 0 /\ index < thisArg

RECURSIVE Insert(_, _)
Insert(s, e) ==
    IF s = <<>> THEN <<e>>
    ELSE IF sortFunction(e, s[Len(s)]) < 0
         THEN Append(Insert(SubSeq(s, 1, Len(s) - 1), e), s[Len(s)])
         ELSE Append(s, e)

\* Array.prototype.sort(compareFn): stable.
RECURSIVE SortWith(_)
SortWith(s) ==
    IF s = <<>> THEN <<>>
    ELSE Insert(SortWith(SubSeq(s, 1, Len(s) - 1)), s[Len(s)])

\* items.sort(options.sortFunction).  With sortFunction undefined the elements
\* are compared as strings; every record is "[object Object]", and the sort is
\* stable, so the order is kept.
Sort(s) == IF opts.sort THEN SortWith(s) ELSE s

RECURSIVE FilterFrom(_, _)
FilterFrom(s, k) ==
    IF k > Len(s) THEN <<>>
    ELSE (IF filterFunction(s[k], k - 1, s, FilterLimit) THEN <<s[k]>> ELSE <<>>)
         \o FilterFrom(s, k + 1)

\* Array.prototype.filter(predicate, thisArg): indices are those of the array
\* filter is called on.
Filter(s) == FilterFrom(s, 1)

\* The other order: filter first, then sort what is left.
FilterThenSort(items) == IF opts.filter THEN Sort(Filter(items)) ELSE Sort(items)

\* items.sort(sortFunction) then, when filterFunction is given,
\* .filter(filterFunction, filterFunctionThisArg)
Arrange(items) == IF opts.filter THEN Filter(Sort(items)) ELSE Sort(items)

\* ------------------------------------------------------- the callbacks
Replace(list, record) ==
    [k \in DOMAIN list |-> IF list[k].id = record.id THEN record ELSE list[k]]

Without(list, record) ==
    LET Keep(item) == item.id # record.id IN SelectSeq(list, Keep)

\* An update that takes the element out and puts the record at the end.
collectionStoreCallbackMovingToEnd(list, action, record) ==
    CASE action = "update" -> Append(Without(list, record), record)
      [] action = "create" -> Append(list, record)
      [] action = "delete" -> Without(list, record)
      [] OTHER -> list

\* A create that puts the record first instead of last.
collectionStoreCallbackPrepending(list, action, record) ==
    CASE action = "update" -> Replace(list, record)
      [] action = "create" -> <<record>> \o list
      [] action = "delete" -> Without(list, record)
      [] OTHER -> list

\* `record` is subscription.record after the await of realtimeStoreExpand.
collectionStoreCallback(list, action, record) ==
    CASE action = "update" -> Replace(list, record)
      [] action = "create" -> Append(list, record)
      [] action = "delete" -> Without(list, record)
      [] OTHER -> list

\* A delete that drops the first element, whatever its id.
paginatedCollectionStoreCallbackDroppingFirst(list, action, record) ==
    CASE action = "update" -> Replace(list.items, record)
      [] action = "create" -> Append(list.items, record)
      [] action = "delete" -> SubSeq(list.items, 2, Len(list.items))
      [] OTHER -> list.items

paginatedCollectionStoreCallback(list, action, record) ==
    CASE action = "update" -> Replace(list.items, record)
      [] action = "create" -> Append(list.items, record)
      [] action = "delete" -> Without(list.items, record)
      [] OTHER -> list.items

\* A record callback whose update replaces an entity only when one is held.
recordStoreCallbackWhenHeld(item, action, record) ==
    CASE action = "update" -> IF item = Undefined THEN item ELSE record
      [] action = "create" -> record
      [] action = "delete" -> Undefined
      [] OTHER -> item

\* A record callback that keeps the held entity on delete.
recordStoreCallbackKeeping(item, action, record) ==
    CASE action = "update" -> record
      [] action = "create" -> record
      [] OTHER -> item

recordStoreCallback(item, action, record) ==
    CASE action = "update" -> record
      [] action = "create" -> record
      [] action = "delete" -> Undefined
      [] OTHER -> item

\* Whether the callback awaits realtimeStoreExpand for this action, and whether
\* realtimeStoreExpand then reads the record from the backend.
Expands(action) == action \in {"update", "create"}

Suspends(action) == Expands(action) /\ opts.expand

\* A resolver that returns the payload of the event whatever expand is.
realtimeStoreExpandPayload(answer, record, expand) == record

\* realtimeStoreExpand(collection, record, expand), where the getOne it may
\* issue answers <<n>>.
realtimeStoreExpand(answer, record, expand) ==
    IF expand THEN Entity(record.id, answer[1], TRUE) ELSE record

\* The sequence the callback returns, before sort and filter.
Returned(list, action, record) ==
    CASE kind = "record" -> <<>>
      [] kind = "collection" -> collectionStoreCallback(list, action, record)
      [] kind = "paginated" -> paginatedCollectionStoreCallback(list, action, record)

\* A .then that also recounts totalItems by what the event added or removed.
NextResultRecounting(list, action, record) ==
    CASE kind = "record" -> recordStoreCallback(list, action, record)
      [] kind = "collection" -> Arrange(collectionStoreCallback(list, action, record))
      [] kind = "paginated" ->
            LET items == paginatedCollectionStoreCallback(list, action, record) IN
            [result EXCEPT
                !.items = Arrange(items),
                !.totalItems = @ + Len(items) - Len(list.items)]

\* The value the .then of the subscription callback assigns to `result` and sets
\* on the store: `result` is read there, `list` was read when the event came.
NextResult(list, action, record) ==
    CASE kind = "record" -> recordStoreCallback(list, action, record)
      [] kind = "collection" -> Arrange(collectionStoreCallback(list, action, record))
      [] kind = "paginated" ->
            [result EXCEPT
                !.items = Arrange(paginatedCollectionStoreCallback(list, action, record))]

\* ---------------------------------------------------------- the options
Base == [ssr |-> FALSE, disableRealtime |-> FALSE, expand |-> FALSE,
         sort |-> FALSE, filter |-> FALSE, initial |-> FALSE, page |-> 1]

RecordOptions ==
    { Base,
      [Base EXCEPT !.expand = TRUE],
      [Base EXCEPT !.initial = TRUE],
      [Base EXCEPT !.disableRealtime = TRUE],
      [Base EXCEPT !.ssr = TRUE] }

ListOptions ==
    RecordOptions \cup
    { [Base EXCEPT !.sort = TRUE, !.filter = TRUE] }

PageOptions == ListOptions \cup { [Base EXCEPT !.page = 2] }

\* The record a record store is bound to.
RecId == 1

\* The collection when the binding is created, and the value a caller that
\* fetched it beforehand passes as options.initial.
InitDb == { [id |-> i, n |-> i % (MaxVal + 1)] : i \in 1 .. (MaxId - 1) }

\* A load function whose getList asks for the page held, not options.page.
FetchedCurrentPage(d) ==
    CASE kind = "record" -> getOne(d, RecId, opts.expand)
      [] kind = "collection" -> getFullList(d, opts.expand)
      [] kind = "paginated" -> getList(d, result.page, PerPage, opts.expand)

Fetched(d) ==
    CASE kind = "record" -> getOne(d, RecId, opts.expand)
      [] kind = "collection" -> getFullList(d, opts.expand)
      [] kind = "paginated" -> getList(d, opts.page, PerPage, opts.expand)

Placeholder ==
    CASE kind = "record" -> Undefined
      [] kind = "collection" -> <<>>
      [] kind = "paginated" -> ListResult(opts.page, PerPage, 0, 0, <<>>)

\* `last` names the operation that produced the state when it is an event
\* applied, suspended, dropped or missed, a navigation call or answer, or the
\* subscription acquired; the other operations leave Idle there.  For an event
\* applied, pre is the sequence the callback returned (before sort and filter)
\* and rec the record it carried after realtimeStoreExpand; for the answer to a
\* navigation, pre is the items held until then.
Did(op) == [op |-> op, action |-> "", id |-> 0, ok |-> TRUE,
            pre |-> <<>>, rec |-> Undefined]

Idle == Did("")

\* A construction that subscribes to the backend whatever disableRealtime is.
InitSubscribing(k, options) ==
    /\ kind = k
    /\ opts \in options
    /\ db = InitDb
    /\ result = Placeholder
    /\ published = IF opts.ssr THEN <<Placeholder>> ELSE <<>>
    /\ loadState = IF opts.ssr THEN "NONE" ELSE "LOADING"
    /\ loadFetch = {}
    /\ pageFetch = <<>>
    /\ handlers = <<>>
    /\ acq = IF opts.ssr THEN "none" ELSE "pending"
    /\ live = FALSE
    /\ observers = 0
    /\ waiting = 0
    /\ calls = [subscribe |-> IF opts.ssr THEN 0 ELSE 1,
                release |-> 0, unsubscribe |-> 0]
    /\ steps = 0
    /\ last = Idle
    /\ truth = {}

InitOf(k, options) ==
    /\ kind = k
    /\ opts \in options
    /\ db = InitDb
    /\ result = Placeholder
    /\ published = IF opts.ssr THEN <<Placeholder>> ELSE <<>>
    /\ loadState = IF opts.ssr THEN "NONE" ELSE "LOADING"
    /\ loadFetch = {}
    /\ pageFetch = <<>>
    /\ handlers = <<>>
    /\ acq = IF opts.ssr THEN "none"
             ELSE IF opts.disableRealtime THEN "resolved" ELSE "pending"
    /\ live = FALSE
    /\ observers = 0
    /\ waiting = 0
    /\ calls = [subscribe |-> IF opts.ssr \/ opts.disableRealtime THEN 0 ELSE 1,
                release |-> 0, unsubscribe |-> 0]
    /\ steps = 0
    /\ last = Idle
    /\ truth = {}

\* --------------------------------------------------------- the handlers
ItemsOf(x) ==
    CASE kind = "record" -> <<>>
      [] kind = "collection" -> x
      [] kind = "paginated" -> x.items

\* The entities a value of the store holds.
Held(x) ==
    IF kind = "record" THEN (IF x = Undefined THEN {} ELSE {x})
    ELSE { ItemsOf(x)[k] : k \in DOMAIN ItemsOf(x) }

\* One event applied to a set of entities keyed by id.
Reduce(t, action, record) ==
    LET others == { e \in t : e.id # record.id } IN
    CASE action = "create" -> others \cup {record}
      [] action = "update" ->
            IF kind = "record" \/ others # t THEN others \cup {record} ELSE t
      [] action = "delete" -> others
      [] OTHER -> t

RemoveAt(s, k) == SubSeq(s, 1, k - 1) \o SubSeq(s, k + 1, Len(s))

\* store.set of a freshly built value: no suspended callback holds the array
\* that is now in `result`.
Unalias(hs) == [k \in DOMAIN hs |-> [hs[k] EXCEPT !.alias = FALSE]]

\* The default branch returns `list` itself and items.sort sorts it in place:
\* a suspended callback that holds the same array sees it sorted.
SortAliased(hs) ==
    [k \in DOMAIN hs |->
        IF hs[k].alias /\ kind # "record"
        THEN [hs[k] EXCEPT
                !.list = IF kind = "collection" THEN Sort(@)
                         ELSE [@ EXCEPT !.items = Sort(@)],
                !.alias = ~opts.filter]
        ELSE hs[k]]

\* .then((items) => store.set((result = ...))) for the callback's return value.
Apply(list, action, record, hs) ==
    /\ result' = NextResult(list, action, record)
    /\ published' = <<result'>>
    /\ handlers' = IF Expands(action) \/ action = "delete"
                   THEN Unalias(hs) ELSE SortAliased(hs)
    /\ truth' = Reduce(truth, action, record)
    /\ last' = [Did("event") EXCEPT
                    !.action = action, !.id = record.id, !.rec = record,
                    !.pre = Returned(list, action, record)]

\* What a getOne of record i answers when the server reads collection d:
\* <<>> for "not found", else <<n>>.
Answer(d, i) == IF Exists(d, i) THEN <<ValOf(d, i)>> ELSE <<>>

\* A request in flight is answered from the collection as it is at some moment
\* between the call and the answer: each change of the collection adds one
\* more state the answer may come from.
Seen(hs, d) ==
    [k \in DOMAIN hs |->
        [hs[k] EXCEPT !.answers = @ \cup {Answer(d, hs[k].record.id)}]]

SeenByPages(fs, d) == [k \in DOMAIN fs |-> [fs[k] EXCEPT !.dbs = @ \cup {d}]]

\* The subscription callback is called with one event.  hs are the suspended
\* callbacks.
Deliver(action, payload, hs) ==
    IF ~live
    THEN /\ handlers' = hs
         /\ UNCHANGED <<result, published, truth>>
         /\ last' = [Did("missed") EXCEPT !.action = action, !.id = payload.id]
    ELSE IF Suspends(action)
    THEN /\ handlers' = Append(hs, [action |-> action, record |-> payload,
                                    list |-> result, alias |-> TRUE,
                                    answers |-> {Answer(db', payload.id)}])
         /\ UNCHANGED <<result, published, truth>>
         /\ last' = [Did("suspend") EXCEPT !.action = action, !.id = payload.id]
    ELSE Apply(result, action,
               IF Expands(action)
               THEN realtimeStoreExpand(<<>>, payload, opts.expand) ELSE payload,
               hs)

Step == steps < MaxSteps /\ steps' = steps + 1

\* What reaches this binding's callback: recordStore subscribes to its id,
\* the collection stores to '*'.
InScope(i) == kind = "record" => i = RecId

Row(i, v) == [id |-> i, n |-> v]

Change(action, i, v) ==
    /\ Step
    /\ InScope(i)
    /\ CASE action = "create" -> ~Exists(db, i) /\ db' = db \cup {Row(i, v)}
         [] action = "update" ->
                /\ Exists(db, i) /\ v # ValOf(db, i)
                /\ db' = (db \ {Row(i, ValOf(db, i))}) \cup {Row(i, v)}
         [] action = "delete" ->
                Exists(db, i) /\ v = ValOf(db, i) /\ db' = db \ {Row(i, v)}
         [] OTHER -> db' = db
    /\ loadFetch' = IF loadFetch = {} THEN {} ELSE loadFetch \cup {db'}
    /\ pageFetch' = SeenByPages(pageFetch, db')
    /\ Deliver(action, Entity(i, v, FALSE), Seen(handlers, db'))
    /\ UNCHANGED <<kind, opts, loadState, acq, live, observers, waiting, calls>>

Create == \E i \in Ids, v \in Vals : Change("create", i, v)

Update == \E i \in Ids, v \in Vals : Change("update", i, v)

Delete == \E i \in Ids, v \in Vals : Change("delete", i, v)

\* An event whose action the callbacks do not know.
Other == Change("other", RecId, MaxVal)

\* The getOne of a suspended callback answers: the callback resumes.
ExpandDone ==
    \E k \in DOMAIN handlers : \E a \in handlers[k].answers :
        LET h == handlers[k] IN
        /\ a # <<>>
        /\ Apply(h.list, h.action, realtimeStoreExpand(a, h.record, opts.expand),
                 RemoveAt(handlers, k))
        /\ UNCHANGED <<kind, opts, db, loadState, loadFetch, pageFetch, acq, live,
                       observers, waiting, calls, steps>>

\* A failure of getOne that resets the store to its placeholder.
ExpandFailResetting ==
    \E k \in DOMAIN handlers :
        /\ handlers' = RemoveAt(handlers, k)
        /\ result' = Placeholder
        /\ published' = <<result'>>
        /\ last' = [Did("dropped") EXCEPT !.action = handlers[k].action,
                                          !.id = handlers[k].record.id]
        /\ UNCHANGED <<kind, opts, db, loadState, loadFetch,
                       pageFetch, acq, live, observers, waiting, calls, steps,
                       truth>>

\* The getOne rejects (the record is gone, the network failed): the callback's
\* promise rejects and its .then never runs.
ExpandFail ==
    \E k \in DOMAIN handlers :
        /\ handlers' = RemoveAt(handlers, k)
        /\ last' = [Did("dropped") EXCEPT !.action = handlers[k].action,
                                          !.id = handlers[k].record.id]
        /\ UNCHANGED <<kind, opts, db, result, published, loadState, loadFetch,
                       pageFetch, acq, live, observers, waiting, calls, steps,
                       truth>>

\* ------------------------------------------------------- load and reload
\* asyncWritable has called its load function at least once.
Started == loadFetch # {} \/ loadState \in {"LOADED", "RELOADING", "ERROR"}

\* The value options.initial holds when it is given: what the caller fetched
\* when the binding was created.
Initial == Fetched(InitDb)

\* A load function that fetches whether or not options.initial is given.
StartLoadFetching ==
    /\ loadFetch' = {db}
    /\ loadState' = IF loadState \in {"LOADED", "ERROR"}
                    THEN "RELOADING" ELSE loadState
    /\ UNCHANGED <<result, published, handlers, truth>>

\* asyncWritable runs the load function:
\*   async () => (result = options.initial ? options.initial : await <fetch>)
StartLoad ==
    IF opts.initial
    THEN /\ result' = Initial
         /\ published' = <<result'>>
         /\ loadState' = "LOADED"
         /\ handlers' = Unalias(handlers)
         /\ truth' = Held(result')
         /\ UNCHANGED loadFetch
    ELSE /\ loadFetch' = {db}
         /\ loadState' = IF loadState \in {"LOADED", "ERROR"}
                         THEN "RELOADING" ELSE loadState
         /\ UNCHANGED <<result, published, handlers, truth>>

NoLoad == UNCHANGED <<result, published, loadState, loadFetch, handlers, truth>>

\* A load() that runs the load function on the server too.
LoadOnServer ==
    /\ IF Started THEN NoLoad ELSE StartLoad
    /\ last' = Idle
    /\ UNCHANGED <<kind, opts, db, pageFetch, acq, live, observers, waiting,
                   calls, steps>>

\* load(): the first call loads, a later call returns the current promise.
Load ==
    /\ IF opts.ssr \/ Started THEN NoLoad ELSE StartLoad
    /\ last' = Idle
    /\ UNCHANGED <<kind, opts, db, pageFetch, acq, live, observers, waiting,
                   calls, steps>>

\* reload(): loads again, whatever was loaded before.
Reload ==
    /\ Step
    /\ loadFetch = {}
    /\ IF opts.ssr THEN NoLoad ELSE StartLoad
    /\ last' = Idle
    /\ UNCHANGED <<kind, opts, db, pageFetch, acq, live, observers, waiting,
                   calls>>

\* getOne / getFullList / getList of the load function answers.
LoadDone ==
    \E d \in loadFetch :
    /\ kind = "record" => Exists(d, RecId)
    /\ loadFetch' = {}
    /\ result' = Fetched(d)
    /\ published' = <<result'>>
    /\ loadState' = "LOADED"
    /\ handlers' = Unalias(handlers)
    /\ truth' = Held(result')
    /\ last' = Idle
    /\ UNCHANGED <<kind, opts, db, pageFetch, acq, live, observers, waiting,
                   calls, steps>>

\* The fetch of the load function rejects.
LoadFail ==
    /\ loadFetch # {}
    /\ loadFetch' = {}
    /\ loadState' = "ERROR"
    /\ last' = Idle
    /\ UNCHANGED <<kind, opts, db, result, published, pageFetch, handlers, acq,
                   live, observers, waiting, calls, steps, truth>>

\* ------------------------------------------------- subscription lifecycle
\* A teardown that calls the release function without awaiting the acquisition.
unsubscribeUnawaited ==
    /\ waiting' = waiting
    /\ calls' = [calls EXCEPT
                    !.unsubscribe = @ + 1,
                    !.release = IF opts.disableRealtime THEN @ ELSE @ + 1]
    /\ live' = FALSE

\* unsubscribe = () => { (async () => await (await unsubscribePromise)())() }
\* The release function of a realtime binding is the backend's; with
\* disableRealtime it is a function that does nothing.
unsubscribe ==
    /\ waiting' = IF acq = "pending" THEN waiting + 1 ELSE waiting
    /\ calls' = [calls EXCEPT
                    !.unsubscribe = @ + 1,
                    !.release = IF acq = "resolved" /\ ~opts.disableRealtime
                                THEN @ + 1 ELSE @]
    /\ live' = IF acq = "resolved" THEN FALSE ELSE live

\* collection.subscribe resolves with the release function; every unsubscribe()
\* that awaits it goes on and calls the function.
Acquired ==
    /\ acq = "pending"
    /\ acq' = "resolved"
    /\ live' = (waiting = 0)
    /\ calls' = [calls EXCEPT !.release = @ + waiting]
    /\ waiting' = 0
    /\ last' = [Did("acquired") EXCEPT !.id = waiting]
    /\ UNCHANGED <<kind, opts, db, result, published, loadState, loadFetch,
                   pageFetch, handlers, observers, steps, truth>>

\* collection.subscribe rejects; every unsubscribe() that awaits it rejects too.
AcquireFail ==
    /\ acq = "pending"
    /\ acq' = "rejected"
    /\ live' = FALSE
    /\ waiting' = 0
    /\ last' = Idle
    /\ UNCHANGED <<kind, opts, db, result, published, loadState, loadFetch,
                   pageFetch, handlers, observers, calls, steps, truth>>

\* A first subscriber that subscribes to the backend again once the
\* subscription has been released.
ObserveReacquiring ==
    /\ Step
    /\ observers' = observers + 1
    /\ IF observers = 0 /\ ~opts.ssr /\ ~Started THEN StartLoad ELSE NoLoad
    /\ last' = Idle
    /\ IF observers = 0 /\ ~opts.ssr /\ ~opts.disableRealtime /\ calls.release > 0
       THEN /\ acq' = "pending"
            /\ calls' = [calls EXCEPT !.subscribe = @ + 1]
            /\ UNCHANGED <<live, waiting>>
       ELSE UNCHANGED <<acq, live, waiting, calls>>
    /\ UNCHANGED <<kind, opts, db, pageFetch>>

\* store.subscribe(...): the first subscriber starts the store, which loads it
\* and subscribes to unsubscribeStore, whose start function returns unsubscribe.
Observe ==
    /\ Step
    /\ observers' = observers + 1
    /\ IF observers = 0 /\ ~opts.ssr /\ ~Started THEN StartLoad ELSE NoLoad
    /\ last' = Idle
    /\ UNCHANGED <<kind, opts, db, pageFetch, acq, live, waiting, calls>>

\* A subscriber unsubscribes; when it was the last one the store stops, which
\* unsubscribes from unsubscribeStore, which calls unsubscribe().
Unobserve ==
    /\ observers > 0
    /\ observers' = observers - 1
    /\ IF observers = 1 /\ ~opts.ssr
       THEN unsubscribe
       ELSE UNCHANGED <<waiting, calls, live>>
    /\ last' = Idle
    /\ UNCHANGED <<kind, opts, db, result, published, loadState, loadFetch,
                   pageFetch, handlers, acq, steps, truth>>

\* ------------------------------------------------------------ navigation
\* A guard that lets the page after the last one through.
HonouredPastEnd(page) == ~opts.ssr /\ page > 0 /\ page <= result.totalPages + 1

\* const setPage = async (page) => { if (page > 0 && page <= result.totalPages) ... }
Honoured(page) == ~opts.ssr /\ page > 0 /\ page <= result.totalPages

setPage(page) ==
    /\ kind = "paginated"
    /\ Step
    /\ pageFetch' = IF Honoured(page)
                    THEN Append(pageFetch, [page |-> page, perPage |-> result.perPage,
                                            dbs |-> {db}])
                    ELSE pageFetch
    /\ last' = [Did("setPage") EXCEPT !.id = page, !.ok = Honoured(page)]
    /\ UNCHANGED <<kind, opts, db, result, published, loadState, loadFetch,
                   handlers, acq, live, observers, waiting, calls, truth>>

SetPage ==
    /\ kind = "paginated"
    /\ \E page \in 0 .. (result.totalPages + 1) : setPage(page)

NextPage == setPage(result.page + 1)

PrevPage == setPage(result.page - 1)

\* An answer that refreshes the metadata and keeps the items held.
PageDoneKeepingItems ==
    \E k \in DOMAIN pageFetch : \E d \in pageFetch[k].dbs :
        /\ pageFetch' = RemoveAt(pageFetch, k)
        /\ result' = [getList(d, pageFetch[k].page, pageFetch[k].perPage, opts.expand)
                         EXCEPT !.items = result.items]
        /\ published' = <<result'>>
        /\ handlers' = Unalias(handlers)
        /\ truth' = Held(result')
        /\ last' = [Did("pageDone") EXCEPT !.id = pageFetch[k].page,
                                           !.pre = result.items]
        /\ UNCHANGED <<kind, opts, db, loadState, loadFetch, acq, live, observers,
                       waiting, calls, steps>>

\* The getList of setPage answers: store.set((result = <the page>)).
PageDone ==
    \E k \in DOMAIN pageFetch : \E d \in pageFetch[k].dbs :
        /\ pageFetch' = RemoveAt(pageFetch, k)
        /\ result' = getList(d, pageFetch[k].page, pageFetch[k].perPage, opts.expand)
        /\ published' = <<result'>>
        /\ handlers' = Unalias(handlers)
        /\ truth' = Held(result')
        /\ last' = [Did("pageDone") EXCEPT !.id = pageFetch[k].page,
                                           !.pre = result.items]
        /\ UNCHANGED <<kind, opts, db, loadState, loadFetch, acq, live, observers,
                       waiting, calls, steps>>

\* The getList of setPage rejects, and so does the promise setPage returned.
PageFail ==
    \E k \in DOMAIN pageFetch :
        /\ pageFetch' = RemoveAt(pageFetch, k)
        /\ last' = [Did("pageFail") EXCEPT !.id = pageFetch[k].page]
        /\ UNCHANGED <<kind, opts, db, result, published, loadState, loadFetch,
                       handlers, acq, live, observers, waiting, calls, steps,
                       truth>>

\* -------------------------------------------------------- specifications
Events == Create \/ Update \/ Delete \/ Other \/ ExpandDone \/ ExpandFail

Loads == Load \/ Reload \/ LoadDone \/ LoadFail

Lifecycle == Acquired \/ AcquireFail \/ Observe \/ Unobserve

Navigation == SetPage \/ NextPage \/ PrevPage \/ PageDone \/ PageFail

Next == Events \/ Loads \/ Lifecycle

NextPaginated == Events \/ Loads \/ Lifecycle \/ Navigation

\* recordStore(collection, RecId, options)
SpecRecord == InitOf("record", RecordOptions) /\ [][Next]_vars

\* collectionStore(collection, options)
SpecCollection == InitOf("collection", ListOptions) /\ [][Next]_vars

\* paginatedCollectionStore(collection, options)
SpecPaginated == InitOf("paginated", PageOptions) /\ [][NextPaginated]_vars

\* collectionStore or paginatedCollectionStore
SpecLists ==
    /\ \/ InitOf("collection", ListOptions)
       \/ InitOf("paginated", PageOptions)
    /\ [][NextPaginated]_vars

\* Any of the three stores.
SpecStores ==
    /\ \/ InitOf("record", RecordOptions)
       \/ InitOf("collection", ListOptions)
       \/ InitOf("paginated", PageOptions)
    /\ [][NextPaginated]_vars

\* Options with sortFunction and filterFunction, without and with expand.
FilterOptions ==
    { [Base EXCEPT !.sort = TRUE, !.filter = TRUE],
      [Base EXCEPT !.sort = TRUE, !.filter = TRUE, !.expand = TRUE] }

\* collectionStore or paginatedCollectionStore with sortFunction and
\* filterFunction
SpecFiltered ==
    /\ \/ InitOf("collection", FilterOptions)
       \/ InitOf("paginated", FilterOptions)
    /\ [][NextPaginated]_vars

\* ----------------------------------------------------------------- claims
\* The sequence the store shows: the items of the value last set on it.
Shown == IF published = <<>> THEN <<>> ELSE ItemsOf(published[1])

Ids_(items) == { items[k].id : k \in DOMAIN items }

NoDuplicates(items) ==
    \A j, k \in DOMAIN items : items[j].id = items[k].id => j = k

\* The published sequence holds exactly one entity per id that was loaded or
\* created and not deleted, each as the last create or update applied for
\* its id left it.
OnePerLiveId == NoDuplicates(Shown) /\ Held(Shown) = truth

\* A step that applies an event to the store.
EventStep == last'.op = "event"

\* C1: in a collection store (taken without filterFunction), an event applied
\* to a published sequence that holds exactly one entity per id loaded or
\* created and not deleted, each the one of the last create or update applied
\* for its id, leaves a sequence that does so again (a create being for an id
\* the sequence does not hold).
C1_OnePerLiveId ==
    [][(/\ kind = "collection" /\ ~opts.filter
        /\ EventStep
        /\ OnePerLiveId
        /\ last'.action = "create" => last'.id \notin Ids_(Shown))
       => OnePerLiveId']_vars

\* C2: after an event handled by a collection or paginated store, the published
\* items are filterFunction applied to the result of sortFunction applied to the
\* whole sequence the callback returned (sort first, filter on the sorted
\* sequence with its indices), each when given.
C2_SortThenFilter ==
    (kind # "record" /\ last.op = "event") =>
        LET sorted == IF opts.sort THEN SortWith(last.pre) ELSE last.pre IN
        /\ ItemsOf(result) = IF opts.filter THEN Filter(sorted) ELSE sorted
        /\ published = <<result>>

\* An event was handled with both functions given, on a sequence for which the
\* two orders of applying them differ.
C2_Witness ==
    /\ kind # "record" /\ last.op = "event"
    /\ opts.sort /\ opts.filter
    /\ Len(last.pre) >= 2
    /\ Filter(SortWith(last.pre)) # SortWith(Filter(last.pre))

\* The binding subscribes to the backend and its release function does something.
Realtime == ~opts.ssr /\ ~opts.disableRealtime

\* C3: however often the teardown runs, before or after the acquisition
\* resolves, the backend's release function is called exactly once.
C3_ReleasedOnce ==
    (Realtime /\ acq = "resolved" /\ calls.unsubscribe >= 1) => calls.release = 1

\* C4: a teardown that runs while the acquisition is pending does not call the
\* release function before the acquisition resolves, and when it has resolved
\* every teardown so far has called it.
C4_ReleaseAfterAcquire ==
    Realtime =>
        /\ acq = "pending" => calls.release = 0
        /\ acq = "resolved" => waiting = 0 /\ calls.release = calls.unsubscribe

\* The acquisition resolved with a teardown waiting for it, which then released.
C4_Witness ==
    /\ Realtime
    /\ last.op = "acquired" /\ last.id >= 1
    /\ acq = "resolved" /\ calls.release = last.id

\* C5: the backend subscribe call is issued when the first observer subscribes
\* (none while the store never had an observer), and the release function is
\* called when the last observer unsubscribes (none while an observer remains).
C5_AcquireOnObserve ==
    /\ calls.subscribe > 0 => observers > 0 \/ calls.unsubscribe > 0
    /\ calls.release > 0 => observers = 0

\* C6: setPage(n), next() and prev() called with n < 1 or n > totalPages of the
\* page window held (so with any n while totalPages is 0) issue no page fetch
\* and leave the page window and the published value as they are; a page
\* fetch is issued only for 1 <= n <= totalPages.
C6_OutOfRangeIgnored ==
    [][last'.op = "setPage" =>
        LET n == last'.id
            inRange == 1 <= n /\ n <= result.totalPages
        IN  /\ ~inRange => UNCHANGED <<result, published, pageFetch>>
            /\ pageFetch' # pageFetch => inRange
            /\ last'.ok => inRange]_vars

\* setPage(totalPages + 1) was called on a loaded window and ignored.
C6_Witness ==
    /\ kind = "paginated"
    /\ last.op = "setPage" /\ ~last.ok
    /\ result.totalPages > 0 /\ last.id = result.totalPages + 1
    /\ pageFetch = <<>>

\* C7: an honoured navigation issues one getList for the new page with the
\* perPage of the window held and the binding's queryParams, and its answer
\* replaces the whole window, items and metadata, by what the server holds:
\* nothing the events put into the previous window remains.
C7_FreshWindow ==
    [][/\ (last'.op = "setPage" /\ last'.ok) =>
            pageFetch' = Append(pageFetch, [page |-> last'.id,
                                            perPage |-> result.perPage,
                                            dbs |-> {db}])
       /\ last'.op = "pageDone" =>
            \E k \in DOMAIN pageFetch : \E d \in pageFetch[k].dbs :
                /\ pageFetch[k].page = last'.id
                /\ result' = getList(d, last'.id, pageFetch[k].perPage, opts.expand)
                /\ published' = <<result'>>
                /\ pageFetch' = RemoveAt(pageFetch, k)]_vars

\* Page 2 replaced a page 1 that an event had grown beyond perPage.
C7_Witness ==
    /\ kind = "paginated"
    /\ last.op = "pageDone" /\ last.id = 2
    /\ Len(last.pre) > result.perPage
    /\ result.page = 2 /\ Len(result.items) <= result.perPage
    /\ published = <<result>>

Meta(x) == <<x.page, x.perPage, x.totalItems, x.totalPages>>

\* C8: an event applied to a paginated store leaves page, perPage, totalItems
\* and totalPages as they are in the window held when it is applied; they
\* change only when a load, a reload or a navigation completes.
C8_EventsKeepMetadata ==
    [][kind = "paginated" =>
        /\ last'.op = "event" => Meta(result') = Meta(result)
        /\ Meta(result') # Meta(result) =>
              \/ last'.op = "pageDone"
              \/ last'.op = "" /\ loadState' = "LOADED" /\ loadFetch' = {}]_vars

\* A create was applied: the window holds more items than perPage and the
\* collection more rows than totalItems.
C8_Witness ==
    /\ kind = "paginated"
    /\ last.op = "event" /\ last.action = "create"
    /\ Len(result.items) > result.perPage
    /\ Cardinality(db) > result.totalItems

\* C9: after an event is applied to a record store, its value is the record of
\* the event as realtimeStoreExpand resolved it for update and create, whatever
\* was held, and undefined for delete.
C9_RecordState ==
    (kind = "record" /\ last.op = "event") =>
        /\ published = <<result>>
        /\ last.action \in {"update", "create"} =>
              /\ result = last.rec
              /\ result.id = last.id /\ result.expanded = opts.expand
        /\ last.action = "delete" => result = Undefined

\* An update with expand was applied to a store that had loaded nothing yet.
C9_Witness ==
    /\ kind = "record" /\ opts.expand
    /\ last.op = "event" /\ last.action = "update"
    /\ loadState = "LOADING" /\ loadFetch = {}
    /\ published = <<Entity(RecId, ValOf(db, RecId), TRUE)>>

\* The sequences a create callback for record i that completes now was called
\* with: `result` when it does not suspend, else the `list` it holds.
CalledWith(i) ==
    IF opts.expand
    THEN { ItemsOf(handlers[k].list) :
             k \in { j \in DOMAIN handlers : /\ handlers[j].action = "create"
                                             /\ handlers[j].record.id = i } }
    ELSE { ItemsOf(result) }

UpdateCalledWith(i) ==
    IF opts.expand
    THEN { ItemsOf(handlers[k].list) :
             k \in { j \in DOMAIN handlers : /\ handlers[j].action = "update"
                                             /\ handlers[j].record.id = i } }
    ELSE { ItemsOf(result) }

C12_DeleteRemoves ==
    [][(kind # "record" /\ last'.op = "event" /\ last'.action = "delete") =>
        LET Other_(item) == item.id # last'.id IN
        /\ last'.pre = SelectSeq(ItemsOf(result), Other_)
        /\ last'.id \notin Ids_(ItemsOf(result'))
        /\ published' = <<result'>>]_vars

\* The first record loaded was deleted and the second one is still held.
C12_Witness ==
    /\ kind = "collection" /\ loadState = "LOADED"
    /\ last.op = "event" /\ last.action = "delete" /\ last.id = 1
    /\ Len(result) >= 1 /\ result[1].id = 2
    /\ last.pre = result

\* The value of a store that holds nothing: undefined, [], or a page window
\* without items, totalItems and totalPages.
Empty(x) ==
    CASE kind = "record" -> x = Undefined
      [] kind = "collection" -> x = <<>>
      [] kind = "paginated" -> x.items = <<>> /\ x.totalItems = 0 /\ x.totalPages = 0

\* C13: a store created on the server never has a fetch in flight, never calls
\* the backend's subscribe, handles no event, and its value is the empty
\* placeholder, whatever is called on it.
C13_ServerInert ==
    opts.ssr =>
        /\ loadFetch = {} /\ pageFetch = <<>> /\ handlers = <<>>
        /\ calls.subscribe = 0 /\ ~live
        /\ published = <<result>> /\ Empty(result)
        /\ truth = {}

\* next() was called on a paginated store created on the server, after another
\* call or a change of the collection.
C13_Witness ==
    /\ opts.ssr /\ kind = "paginated"
    /\ last.op = "setPage" /\ last.id = 2 /\ ~last.ok
    /\ steps >= 2

\* C14: a store created with disableRealtime never calls the backend's
\* subscribe, and no change of the collection reaches it: its callback is not
\* called, and the value it holds and publishes stays what the loads (and
\* navigations) made it.
C14_NoRealtime ==
    [][opts.disableRealtime =>
        /\ calls.subscribe = 0 /\ calls'.subscribe = 0
        /\ ~live'
        /\ last'.op \notin {"event", "suspend", "dropped"}
        /\ last'.op = "missed" => UNCHANGED <<result, published, handlers>>]_vars

\* With disableRealtime the store still holds what it loaded, after the
\* collection changed.
C14_Witness ==
    /\ opts.disableRealtime /\ kind = "collection"
    /\ loadState = "LOADED" /\ loadFetch = {}
    /\ last.op = "missed" /\ last.action \in {"create", "update", "delete"}
    /\ db # InitDb
    /\ result = getFullList(InitDb, opts.expand) /\ published = <<result>>

\* What the load function of each store reads from collection d.
LoadFetchOf(d) ==
    CASE kind = "record" -> getOne(d, RecId, opts.expand)
      [] kind = "collection" -> getFullList(d, opts.expand)
      [] kind = "paginated" -> getList(d, opts.page, PerPage, opts.expand)

\* A step in which a load completes: the value is set by an operation that
\* is neither an event nor a navigation, or the state becomes LOADED.
LoadCompletes ==
    /\ last'.op = ""
    /\ \/ result' # result \/ published' # published
       \/ loadState' = "LOADED" /\ loadState # "LOADED"

\* C15: with options.initial, loading never has a fetch in flight and the value
\* loaded is options.initial; without it, loading issues the one fetch of the
\* store (getOne of the id, getFullList, getList of options.page and perPage,
\* with queryParams) and the value loaded is what that fetch answers.
C15_InitialOrFetch ==
    [][~opts.ssr =>
        IF opts.initial
        THEN /\ loadFetch = {} /\ loadFetch' = {}
             /\ LoadCompletes =>
                  /\ result' = LoadFetchOf(InitDb) /\ published' = <<result'>>
                  /\ loadState' = "LOADED"
        ELSE /\ (loadFetch = {} /\ loadFetch' # {}) => loadFetch' = {db}
             /\ LoadCompletes =>
                  /\ loadFetch # {} /\ loadFetch' = {}
                  /\ \E d \in loadFetch :
                        /\ kind = "record" => Exists(d, RecId)
                        /\ result' = LoadFetchOf(d) /\ published' = <<result'>>
                  /\ loadState' = "LOADED"]_vars

\* A store given options.initial is loaded with it although the collection is
\* no longer what it was when the caller fetched it.
C15_Witness ==
    /\ opts.initial /\ kind = "paginated"
    /\ loadState = "LOADED" /\ last = Idle
    /\ getList(db, opts.page, PerPage, opts.expand) # result
    /\ result = getList(InitDb, opts.page, PerPage, opts.expand)
    /\ published = <<result>>

\* The store takes the record of the event it applies: a record store as its
\* value; a list as the last element of the sequence a create yields and as
\* every element with the record's id of the sequence an update yields,
\* before sort and filter.
Takes ==
    /\ kind = "record" => result' = last'.rec /\ published' = <<result'>>
    /\ (kind # "record" /\ last'.action = "create") =>
          last'.pre # <<>> /\ last'.pre[Len(last'.pre)] = last'.rec
    /\ (kind # "record" /\ last'.action = "update") =>
          \A k \in DOMAIN last'.pre :
              last'.pre[k].id = last'.id => last'.pre[k] = last'.rec

\* C16: for a create or update delivered to the callback, with expand one
\* getOne of the record's id (with the expand parameter) is issued and, when
\* it answers, the entity the store takes is that answer, not the payload;
\* without expand no getOne is issued and the entity the store takes is the
\* payload as delivered.
C16_ExpandRoundTrip ==
    [][(last'.action \in {"create", "update"} /\ last'.op \in {"suspend", "event"}) =>
        IF opts.expand
        THEN IF last'.op = "suspend"
             THEN /\ Len(handlers') = Len(handlers) + 1
                  /\ handlers'[Len(handlers')].record =
                        Entity(last'.id, ValOf(db', last'.id), FALSE)
                  /\ handlers'[Len(handlers')].answers = {Answer(db', last'.id)}
                  /\ UNCHANGED <<result, published>>
             ELSE /\ Len(handlers') = Len(handlers) - 1
                  /\ \E k \in DOMAIN handlers : \E a \in handlers[k].answers :
                        /\ a # <<>>
                        /\ handlers[k].record.id = last'.id
                        /\ last'.rec = Entity(last'.id, a[1], TRUE)
                  /\ Takes
        ELSE /\ last'.op = "event"
             /\ handlers = <<>> /\ handlers' = <<>>
             /\ last'.rec = Entity(last'.id, ValOf(db', last'.id), FALSE)
             /\ Takes]_vars

\* An update with expand took the answer of its getOne, which is not what the
\* collection holds any more.
C16_Witness ==
    /\ opts.expand /\ kind = "collection"
    /\ last.op = "event" /\ last.action = "update"
    /\ last.rec.expanded /\ last.rec \in Held(result)
    /\ Exists(db, last.id) /\ ValOf(db, last.id) # last.rec.n

\* C17: when the getOne of an event's callback rejects, nothing is published
\* for that event: the value held and published, with what earlier events did
\* to it, is what it was; the other suspended callbacks and the subscription
\* are as they were, so later events are handled as before.
C17_ExpandFailureDropsEvent ==
    [][last'.op = "dropped" =>
        /\ UNCHANGED <<result, published, truth, live, acq, loadState,
                       loadFetch, pageFetch>>
        /\ \E k \in DOMAIN handlers :
              /\ handlers[k].action = last'.action
              /\ handlers[k].record.id = last'.id
              /\ handlers' = RemoveAt(handlers, k)]_vars

\* The getOne of one event failed; the store still holds what it loaded, is
\* still subscribed, and the callback of another event is still under way.
C17_Witness ==
    /\ kind = "collection" /\ opts.expand
    /\ last.op = "dropped"
    /\ live /\ Len(handlers) = 1
    /\ loadState = "LOADED" /\ result # <<>> /\ published = <<result>>

\* C18: when the fetch of a load or of a navigation fails, the value held and
\* published stays what it was and the state of the store becomes ERROR; a
\* reload whose fetch answers sets the state to LOADED and the value to the
\* answer.
C18_FetchErrorFlag ==
    [][/\ last'.op = "pageFail" =>
            UNCHANGED <<result, published>> /\ loadState' = "ERROR"
       /\ (loadFetch # {} /\ loadFetch' = {}) =>
            \/ loadState' = "ERROR" /\ UNCHANGED <<result, published>>
            \/ /\ loadState' = "LOADED"
               /\ \E d \in loadFetch :
                     /\ kind = "record" => Exists(d, RecId)
                     /\ result' = LoadFetchOf(d) /\ published' = <<result'>>]_vars

\* C19: once the backend's subscribe has rejected, no event is ever applied,
\* suspended or dropped, and changes of the collection leave the value alone;
\* the release function is never called, whatever teardowns run; loads and
\* navigations go on as without a subscription: an honoured navigation issues
\* its fetch and a fetch that answers sets the value.
C19_FetchOnly ==
    [][(acq = "rejected" \/ acq' = "rejected") =>
        /\ acq' = "rejected" /\ ~live' /\ waiting' = 0
        /\ calls'.release = 0 /\ handlers' = <<>>
        /\ last'.op \notin {"event", "suspend", "dropped"}
        /\ last'.op = "missed" => UNCHANGED <<result, published>>
        /\ (last'.op = "setPage" /\ 1 <= last'.id /\ last'.id <= result.totalPages) =>
              Len(pageFetch') = Len(pageFetch) + 1
        /\ last'.op = "pageDone" =>
              /\ result'.page = last'.id /\ published' = <<result'>>
              /\ Len(pageFetch') = Len(pageFetch) - 1
        /\ (loadFetch # {} /\ loadFetch' = {} /\ loadState' = "LOADED") =>
              published' = <<result'>> /\ truth' = Held(result')]_vars

\* The subscribe rejected; the store was loaded, went to page 2, and its last
\* observer unsubscribed without the release function being called.
C19_Witness ==
    /\ acq = "rejected" /\ kind = "paginated" /\ opts.page = 1
    /\ loadState = "LOADED" /\ result.page = 2 /\ published = <<result>>
    /\ observers = 0 /\ calls.unsubscribe = 1 /\ calls.release = 0

\* C20: in a collection store, when an update of one id was suspended in its
\* getOne while a delete of another id was delivered and applied, and the
\* update then completes, the sequence is what handling update then delete
\* one after the other gives: the deleted id is not in it and the entity of the
\* updated id, if held, is the update's record.
C20_OverlapAsInOrder ==
    [][(/\ kind = "collection" /\ opts.expand /\ ~opts.filter
        /\ last.op = "event" /\ last.action = "delete"
        /\ last'.op = "event" /\ last'.action = "update"
        /\ last'.id # last.id
        /\ OnePerLiveId)
       => /\ last.id \notin Ids_(ItemsOf(result'))
          /\ last'.id \in Ids_(ItemsOf(result)) => last'.rec \in Held(result')
          /\ OnePerLiveId']_vars

\* C21: a callback that was suspended in its getOne while a navigation
\* completed applies its create or update, when it resumes, to the items of
\* the page window then held: the sequence it yields is that window's items
\* with the record appended or replaced, and holds nothing else of the window
\* the navigation replaced.
C21_ResumeOnCurrent ==
    [][(/\ kind = "paginated" /\ opts.expand
        /\ last.op = "pageDone"
        /\ last'.op = "event" /\ last'.action \in {"create", "update"})
       => last'.pre = paginatedCollectionStoreCallback(result, last'.action, last'.rec)]_vars

\* C22: in a record store with expand, an update whose callback completes
\* right after a delete of the same record was applied publishes its record:
\* the store holds the entity although the delete was delivered last.
C22_UpdateAfterDelete ==
    [][(/\ kind = "record" /\ opts.expand
        /\ last.op = "event" /\ last.action = "delete"
        /\ last'.op = "event" /\ last'.action = "update")
       => /\ result = Undefined
          /\ result' = last'.rec /\ result' # Undefined /\ result'.expanded
          /\ published' = <<result'>>]_vars

\* The record is deleted in the collection, the delete was delivered while the
\* store was subscribed, no callback is under way, and the store holds the
\* entity of the update delivered before.
C22_Witness ==
    /\ kind = "record" /\ opts.expand
    /\ live /\ handlers = <<>>
    /\ ~Exists(db, RecId)
    /\ last.op = "event" /\ last.action = "update" /\ last.id = RecId
    /\ result # Undefined /\ result.id = RecId /\ published = <<result>>

\* A sequence is ordered according to sortFunction.
Sorted(items) ==
    \A j, k \in DOMAIN items : j < k => sortFunction(items[j], items[k]) <= 0

\* Every element of a sequence satisfies filterFunction where it stands.
Filtered(items) ==
    \A k \in DOMAIN items : filterFunction(items[k], k - 1, items, FilterLimit)

\* C23: with sortFunction and filterFunction given to a collection store, the
\* sequence published by a loaded store is ordered according to sortFunction
\* and holds only entities that satisfy filterFunction, after a load or reload
\* as well as after an event.
C23_ArrangedWhenLoaded ==
    (/\ kind = "collection" /\ opts.sort /\ opts.filter
     /\ loadState = "LOADED" /\ published # <<>>)
    => Sorted(Shown) /\ Filtered(Shown)

\* C24: an event whose action is not create, update or delete issues no getOne
\* and leaves the value as it is: a record store keeps its entity or
\* undefined, a collection or paginated store keeps its elements, none added,
\* removed or replaced.
C24_UnknownActionNoChange ==
    [][(last'.op = "event" /\ last'.action \notin {"create", "update", "delete"}) =>
        /\ Len(handlers') = Len(handlers)
        /\ kind = "record" => result' = result
        /\ kind # "record" =>
              /\ Len(ItemsOf(result')) = Len(ItemsOf(result))
              /\ Held(result') = Held(result)]_vars

\* A step that is a call of reload().
ReloadCalled == last'.op = "" /\ steps' # steps /\ observers' = observers

\* C25: reload() runs the load function again: with options.initial it sets the
\* value to options.initial; without it, it issues the store's fetch, and the
\* answer (getOne of the id, getFullList, getList of options.page and perPage)
\* replaces the value, whatever events and navigations made of it: a
\* paginated store is back on options.page.
C25_ReloadAsFirstLoad ==
    [][~opts.ssr =>
        /\ ReloadCalled =>
              IF opts.initial
              THEN /\ result' = LoadFetchOf(InitDb) /\ published' = <<result'>>
                   /\ loadFetch' = {}
              ELSE /\ loadFetch = {} /\ loadFetch' = {db}
                   /\ UNCHANGED <<result, published>>
        /\ (loadState = "RELOADING" /\ loadState' = "LOADED") =>
              /\ \E d \in loadFetch :
                    /\ kind = "record" => Exists(d, RecId)
                    /\ result' = LoadFetchOf(d) /\ published' = <<result'>>
              /\ kind = "paginated" =>
                    result'.page = opts.page /\ result'.perPage = PerPage
              /\ truth' = Held(result')]_vars

\* reload() was called on a paginated store created for page 1 that a
\* navigation had moved to page 2; its fetch is under way.
C25_Witness ==
    /\ kind = "paginated" /\ ~opts.initial /\ opts.page = 1
    /\ loadState = "RELOADING" /\ loadFetch = {db}
    /\ result.page = 2 /\ published = <<result>>
    /\ pageFetch = <<>> /\ last = Idle

\* C26: in a collection or paginated store, an update or delete whose id is
\* not in the sequence held adds nothing and removes nothing: the same
\* elements are held after it, in the same order when no sortFunction is
\* given.  Stated for stores without expand, where the callback runs on the
\* sequence held when the event is delivered.
C26_AbsentIdNoChange ==
    [][(/\ kind # "record" /\ ~opts.expand
        /\ last'.op = "event" /\ last'.action \in {"update", "delete"}
        /\ last'.id \notin Ids_(ItemsOf(result)))
       => /\ Len(ItemsOf(result')) = Len(ItemsOf(result))
          /\ Held(result') = Held(result)
          /\ ~opts.sort => ItemsOf(result') = ItemsOf(result)]_vars

TotalPagesOf(d) == getList(d, 1, PerPage, FALSE).totalPages

\* The backend has answered and will answer T pages to every fetch issued so
\* far, the page given at construction and every page asked for lie in 1..T,
\* and so does the page held once the store has loaded (until then the store
\* holds the metadata of the placeholder, whose totalPages is 0).
Settled(T) ==
    /\ T >= 1
    /\ opts.page \in 1 .. T
    /\ TotalPagesOf(db) = T
    /\ opts.initial => TotalPagesOf(InitDb) = T
    /\ \A d \in loadFetch : TotalPagesOf(d) = T
    /\ \A k \in DOMAIN pageFetch :
        /\ pageFetch[k].page \in 1 .. T
        /\ \A d \in pageFetch[k].dbs : TotalPagesOf(d) = T
    /\ \/ result.totalPages = Placeholder.totalPages
       \/ result.totalPages = T /\ result.page \in 1 .. T
    /\ loadState = "LOADED" => result.totalPages = T

\* C29: in a paginated store whose backend keeps answering the same
\* totalPages T >= 1 and whose construction-time page is in 1..T, every loaded
\* state has 1 <= page <= totalPages.  By induction: it is so when the store is
\* created, and a step that leaves the backend's totalPages at T (a setPage,
\* next or prev call, an answer to a fetch, an event) keeps it so.
C29_PageInRange ==
    [][kind = "paginated" =>
        /\ (db = InitDb /\ result = Placeholder /\ loadFetch = {} /\ pageFetch = <<>>
            /\ loadState \in {"LOADING", "NONE"})
           => Settled(TotalPagesOf(InitDb))
        /\ \A T \in 1 .. MaxId :
            (Settled(T) /\ TotalPagesOf(db') = T) => Settled(T)']_vars

\* A store created on page 1 holds page 2 after a navigation, the backend
\* having answered the same totalPages throughout.
C29_Witness ==
    /\ kind = "paginated"
    /\ opts.page = 1
    /\ last.op = "pageDone"
    /\ loadState = "LOADED"
    /\ result.page = 2
    /\ Settled(result.totalPages)

====
